---- MODULE Spec2Model ----
(***************************************************************************)
(* Record store and reconciler of the Boot Camp Class List dashboard,      *)
(* src/employee_dashboard_fixed.py.                                        *)
(*                                                                         *)
(* src/employee_dashboard.py, the earlier revision, is not a Python        *)
(* program (its line 781 does not parse and lines 768-1081 hold a second,  *)
(* interleaved copy of the two forms): it has no run, and no behaviour of  *)
(* this module stands for it.                                              *)
(*                                                                         *)
(* One action of the model is one run of the script, from the top to the   *)
(* point where the run ends: the last line, an uncaught exception,         *)
(* st.stop() or st.rerun().  The run that st.rerun() asks for is the next  *)
(* run, an action of its own: it starts with the widget state the session  *)
(* has by then.                                                            *)
(*                                                                         *)
(* A cell of the model's files is text, a number, a date or empty, and     *)
(* every cell value of the model is a string: Null stands for NaN / NaT,   *)
(* PyNone for Python's None, the strings of Numbers for numbers and those  *)
(* of Timestamps and Dates for timestamps and dates.  A frame carries the  *)
(* dtype of each of its columns.                                           *)
(*                                                                         *)
(* The repository pins no pandas version.  Releases before 3 and from 3 on *)
(* differ in the dtype of a text column, in the dtype pd.concat gives a    *)
(* column whose cells are all missing on one side, and in what .loc does   *)
(* with a value the dtype of the column cannot hold; the variable build    *)
(* holds the installed one.                                                *)
(*                                                                         *)
(* The 28 keys of the dictionary literal of the two forms are represented  *)
(* by the columns of FormCols: required text (Preferred Name, Work Email), *)
(* optional text (Personal), date (Hire Date, standing for SE Capstone     *)
(* too), data-driven dropdown (Region, Role, Business Unit, Boot Camp      *)
(* In-Person, VILT, Transfer/Promo), fixed selectbox (Employee Type) and   *)
(* Yes/No selectbox (Capstone Loaded).  "Notes" is a column of an uploaded *)
(* file that no form covers.                                               *)
(***************************************************************************)
EXTENDS Integers, Sequences, FiniteSets, TLC

VARIABLES
    employee_df,              \* st.session_state.employee_df
    last_uploaded_file_id,    \* st.session_state.last_uploaded_file_id
    original_employee_count,  \* st.session_state.original_employee_count
    data_version,             \* st.session_state.data_version
    uploaded_file,            \* the file held by the sidebar uploader
    cleared,                  \* sidebar multiselects the user has emptied
    rendered,                 \* what the last run drew
    rerun_requested,          \* the last run ended with st.rerun(): the
                              \* session starts another run
    build,                    \* the pandas release the program runs on
    nops,                     \* committed appends and updates so far
    nedits,                   \* form inputs changed in the submits so far
    ev                        \* what the last run did (history variable)

vars == <<employee_df, last_uploaded_file_id, original_employee_count,
          data_version, uploaded_file, cleared, rendered, rerun_requested,
          build, nops, nedits, ev>>

----------------------------------------------------------------------------
(* Bounds *)

MaxOps == 1        \* committed appends/updates per session
MaxRows == 3       \* rows the Table may grow to by appends
MaxEdits == 1      \* form inputs the user changes in the submits of a session
                   \* (name and email of the add form not counted)

----------------------------------------------------------------------------
(* Values *)

Null == "<null>"                  \* NaN in a text column, NaT in a date column
PyNone == "<None>"                \* None
Unset == -1                       \* key absent from st.session_state
NoFile == "<no file>"             \* uploader is empty
NoneId == <<>>                    \* last_uploaded_file_id = None

TsMidnight == "2024-01-01 00:00:00"
TsMorning == "2024-01-01 09:30:00"
TsToday == "2026-10-29 00:00:00"
DateOne == "2024-01-01"
DateToday == "2026-10-29"
Timestamps == {TsMidnight, TsMorning, TsToday}
Dates == {DateOne, DateToday}

\* the float 7.5
Number75 == "#7.5"
Numbers == {Number75}

Whitespace == {" "}

\* pd.notna / pd.isna : NaN, NaT and None are missing
NotNa(v) == v /= Null /\ v /= PyNone

\* isinstance(v, (int, float)) of a value that is not missing
IsNum(v) == v \in Numbers

\* isinstance(v, str)
IsStr(v) == NotNa(v) /\ v \notin Timestamps /\ v \notin Dates /\ v \notin Numbers

\* Python truthiness of a value: "" and None are falsy, NaN is truthy
Truthy(v) == v /= "" /\ v /= PyNone

\* str.strip()
Strip(v) == IF v \in Whitespace THEN "" ELSE v

\* pd.to_datetime(date) : a date becomes the timestamp of its midnight
ToDatetime(d) ==
    CASE d = DateOne -> TsMidnight
      [] d = DateToday -> TsToday
      [] OTHER -> Null

\* Timestamp.date() : the time of day is dropped
DateOf(ts) ==
    CASE ts = TsMidnight -> DateOne
      [] ts = TsMorning -> DateOne
      [] ts = TsToday -> DateToday
      [] OTHER -> PyNone

\* pd.to_datetime(column, errors='coerce') applied to one raw cell of a file
CoerceDatetime(v) ==
    CASE v \in Timestamps -> v
      [] v \in Dates -> ToDatetime(v)
      [] OTHER -> Null

\* elementwise ==  (a missing cell equals nothing)
EqVal(a, b) == NotNa(a) /\ NotNa(b) /\ a = b

\* the strings of this module in the order sorted() gives them
SortOrder == <<"", " ", "7.5", "Ann", "Bob", "Contract", "Cy", "East",
               "Full Time", "Intern", "Jan 2024", "No", "None", "Part Time",
               "SE", "Sales", "Temp", "Unknown", "West", "Yes", "Zed", "a@x",
               "b@x", "c@x", "n/a", "n1", "nan", "p1", "z@x">>

\* position of each string in that order
RankOf == [v \in {SortOrder[i] : i \in DOMAIN SortOrder} |->
              CHOOSE i \in DOMAIN SortOrder : SortOrder[i] = v]

\* sort key within one type: the position of a string; the model has one
\* number
Rank(v) == IF IsNum(v) THEN 0 ELSE RankOf[v]

\* what stands for the TypeError sorted() raises ('<' not supported between
\* instances of 'str' and 'float') in the place of the sorted list
TypeErrorRaised == <<"<TypeError>">>

\* sorted(values) of a set of values: the values in ascending order, and
\* TypeError when the set holds a number and a string
RECURSIVE Sorted(_)
Sorted(S) ==
    IF (\E x \in S : IsNum(x)) /\ (\E y \in S : ~IsNum(y)) THEN TypeErrorRaised
    ELSE IF S = {} THEN <<>>
    ELSE LET m == CHOOSE x \in S : \A y \in S : Rank(x) <= Rank(y)
         IN <<m>> \o Sorted(S \ {m})

----------------------------------------------------------------------------
(* pandas releases and dtypes *)

PandasOld == "pandas < 3"
PandasNew == "pandas >= 3"
Builds == {PandasOld, PandasNew}

Object == "object"
Datetime == "datetime64"
StrDtype == "str"
Float == "float64"

\* dtype of a column of text: object before pandas 3, str from pandas 3 on
TextDtype == IF build = PandasNew THEN StrDtype ELSE Object

\* the value a cell of a column of dtype d reads back after v, a value the
\* dtype can hold, was assigned to it: None becomes NaT in a datetime64
\* column and NaN in a float64 or str column, and stays None in an object
\* column
Cast(d, v) == IF v = PyNone /\ d /= Object THEN Null ELSE v

\* the dtype d cannot hold the value v: text in a float64 or datetime64
\* column, a value that is no text in a str column.  A missing value fits
\* every dtype.
Incompatible(d, v) ==
    /\ NotNa(v)
    /\ CASE d = Float -> ~IsNum(v)
         [] d = Datetime -> v \notin Timestamps
         [] d = StrDtype -> ~IsStr(v)
         [] OTHER -> FALSE

\* dtype of a column of dtype d after df.loc[i, col] = v: before pandas 3
\* a value the dtype cannot hold turns the column into an object column
\* (pandas 3 raises instead, see LocRaises)
WriteDtype(d, v) == IF Incompatible(d, v) THEN Object ELSE d

\* dtype pd.DataFrame([record]) infers for the one-cell column holding v
InferDtype(v) ==
    IF v \in Timestamps THEN Datetime
    ELSE IF IsNum(v) THEN Float
    ELSE IF NotNa(v) THEN TextDtype
    ELSE Object

\* dtype pd.concat gives a column joined from a part of dtype d1 and a part
\* of dtype d2; na1 / na2: every cell of that part is missing.  Before
\* pandas 3 a part whose cells are all missing has no say in the dtype.
ConcatDtype(d1, na1, d2, na2) ==
    IF d1 = d2 THEN d1
    ELSE IF build = PandasOld /\ na1 /\ ~na2 THEN d2
    ELSE IF build = PandasOld /\ na2 /\ ~na1 THEN d1
    ELSE Object

----------------------------------------------------------------------------
(* Columns *)

PreferredName == "Preferred Name"
WorkEmail == "Work Email"
Personal == "Personal"
HireDate == "Hire Date"
Region == "Region"
Role == "Role"
BusinessUnit == "Business Unit"
EmployeeType == "Employee Type"
CapstoneLoaded == "Capstone Loaded"
BootCampInPerson == "Boot Camp In-Person"
VILT == "VILT"
TransferPromo == "Transfer/Promo"
Notes == "Notes"

\* keys of the updated_employee / new_employee dictionary literals
FormCols == {PreferredName, WorkEmail, Personal, HireDate, BusinessUnit,
             Region, Role, EmployeeType, BootCampInPerson, VILT,
             TransferPromo, CapstoneLoaded}
RequiredCols == {PreferredName, WorkEmail}
TextCols == {PreferredName, WorkEmail, Personal}
DateCols == {HireDate}

\* fields the edit form draws as a dropdown over the values of the column
\* (the add form draws them as text inputs)
DropdownCols == {BusinessUnit, Region, Role, BootCampInPerson, VILT,
                 TransferPromo}

employee_type_options == <<"", "Full Time", "Part Time", "Contract", "Intern">>
yes_no_options == <<"", "Yes", "No">>

Range(s) == {s[i] : i \in DOMAIN s}

----------------------------------------------------------------------------
(* Data frames: a column set, a dtype for each column and a sequence of    *)
(* rows over the column set                                                *)

EmptyDF == [columns |-> {}, rows |-> <<>>, dtypes |-> <<>>]

\* None where a frame is expected: the df of a reader result that carries
\* an error text
NoneDF == [columns |-> {}, rows |-> <<>>, dtypes |-> <<>>, none |-> TRUE]

IsNone(df) == df = NoneDF

\* len(df)
Count(df) == Len(df.rows)

\* DataFrame.empty : either axis has length 0
IsEmpty(df) == df.columns = {} \/ Len(df.rows) = 0

\* Series.get(col, default)
Get(r, c, default) == IF c \in DOMAIN r THEN r[c] ELSE default

\* variant: df[col] = "" for a column df lacks
AddColumn_blank(df, c) ==
    IF c \in df.columns THEN df
    ELSE [columns |-> df.columns \cup {c},
          rows |-> [i \in DOMAIN df.rows |->
                      [k \in df.columns \cup {c} |->
                          IF k \in df.columns THEN df.rows[i][k] ELSE ""]],
          dtypes |-> [k \in df.columns \cup {c} |->
                          IF k \in df.columns THEN df.dtypes[k] ELSE Object]]

\* df[col] = None for a column df lacks: an object column of None
AddColumn(df, c) ==
    IF c \in df.columns THEN df
    ELSE [columns |-> df.columns \cup {c},
          rows |-> [i \in DOMAIN df.rows |->
                      [k \in df.columns \cup {c} |->
                          IF k \in df.columns THEN df.rows[i][k] ELSE PyNone]],
          dtypes |-> [k \in df.columns \cup {c} |->
                          IF k \in df.columns THEN df.dtypes[k] ELSE Object]]

RECURSIVE AddColumns(_, _)
AddColumns(df, cs) ==
    IF cs = {} THEN df
    ELSE LET c == CHOOSE x \in cs : TRUE
         IN AddColumns(AddColumn(df, c), cs \ {c})

\* positions of the rows whose Work Email equals the key
MatchIdx(df, key) ==
    IF WorkEmail \in df.columns
    THEN {i \in DOMAIN df.rows : EqVal(df.rows[i][WorkEmail], key)}
    ELSE {}

Min(S) == CHOOSE x \in S : \A y \in S : x <= y

----------------------------------------------------------------------------
(* Uploaded files *)

FileTeam == "team.csv"
FileDups == "dups.csv"
FileSolo == "solo.csv"
FileHead == "head.csv"            \* a header line and no data row
FileAnon == "anon.csv"            \* no Work Email column
FileCodes == "codes.csv"          \* Region holds numbers
FileBad == "bad.csv"              \* the reader raises, with a message
FileMute == "damaged.xls"         \* the reader raises an exception whose
                                  \* str() is empty (a bare assert of the
                                  \* xls reader, a MemoryError)
Files == {FileTeam, FileDups, FileSolo, FileHead, FileAnon, FileCodes, FileBad,
          FileMute}

\* uploaded_file.size
FileSize(f) ==
    CASE f = FileTeam -> 120
      [] f = FileDups -> 96
      [] f = FileSolo -> 40
      [] f = FileHead -> 33
      [] f = FileAnon -> 25
      [] f = FileCodes -> 48
      [] f = FileMute -> 512
      [] OTHER -> 7

\* the header and the cells of each file as the reader returns them
RawColumns(f) ==
    CASE f = FileTeam -> {PreferredName, WorkEmail, "Region ", Notes}
      [] f = FileDups -> {PreferredName, WorkEmail, HireDate, EmployeeType}
      [] f = FileSolo -> {PreferredName, WorkEmail, VILT}
      [] f = FileHead -> {PreferredName, WorkEmail, Notes}
      [] f = FileAnon -> {PreferredName, Notes}
      [] f = FileCodes -> {PreferredName, WorkEmail, Region}
      [] OTHER -> {}

RawRows(f) ==
    CASE f = FileTeam ->
           << [c \in RawColumns(FileTeam) |->
                 CASE c = PreferredName -> "Ann"
                   [] c = WorkEmail -> "a@x"
                   [] c = "Region " -> "East"
                   [] OTHER -> " "],
              [c \in RawColumns(FileTeam) |->
                 CASE c = PreferredName -> "Bob"
                   [] c = WorkEmail -> "b@x"
                   [] c = "Region " -> Null
                   [] OTHER -> "n1"] >>
      [] f = FileDups ->
           << [c \in RawColumns(FileDups) |->
                 CASE c = PreferredName -> "Ann"
                   [] c = WorkEmail -> "a@x"
                   [] c = HireDate -> TsMorning
                   [] OTHER -> "Temp"],
              [c \in RawColumns(FileDups) |->
                 CASE c = PreferredName -> "Bob"
                   [] c = WorkEmail -> "a@x"
                   [] c = HireDate -> "n/a"
                   [] OTHER -> "Full Time"] >>
      [] f = FileSolo ->
           << [c \in RawColumns(FileSolo) |->
                 CASE c = PreferredName -> "Cy"
                   [] c = WorkEmail -> "c@x"
                   [] OTHER -> "Jan 2024"] >>
      [] f = FileAnon ->
           << [c \in RawColumns(FileAnon) |->
                 CASE c = PreferredName -> "Cy"
                   [] OTHER -> "n1"] >>
      [] f = FileCodes ->
           << [c \in RawColumns(FileCodes) |->
                 CASE c = PreferredName -> "Dee"
                   [] c = WorkEmail -> "d@x"
                   [] OTHER -> Number75],
              [c \in RawColumns(FileCodes) |->
                 CASE c = PreferredName -> "Eli"
                   [] c = WorkEmail -> "e@x"
                   [] OTHER -> Number75] >>
      [] OTHER -> <<>>

\* the reader raises on this file
ReadFails(f) == f \in {FileBad, FileMute}

\* str(e) of the exception the reader raises
ErrorText(f) == IF f = FileMute THEN "" ELSE "Error tokenizing data"

\* df.columns.str.strip() on one header cell
StripName(c) == IF c = "Region " THEN Region ELSE c

\* the raw header cell a stripped column name came from
RawName(f, c) == CHOOSE r \in RawColumns(f) : StripName(r) = c

\* dtype the reader gives a column of the file: Hire Date is converted to
\* datetime64, a column without a cell is object, a column whose cells are
\* numbers or empty is float64, and a column with text in some cell is a
\* text column
FileDtype(f, c) ==
    IF c = HireDate THEN Datetime
    ELSE IF RawRows(f) = <<>> THEN Object
    ELSE IF \A i \in DOMAIN RawRows(f) :
               LET v == RawRows(f)[i][RawName(f, c)] IN IsNum(v) \/ ~NotNa(v)
    THEN Float
    ELSE TextDtype

\* (df, None) of a file that was read, (None, str(e)) of one that was not
process_uploaded_file(f) ==
    IF ReadFails(f)
    THEN [df |-> NoneDF, error |-> ErrorText(f)]
    ELSE LET cols == {StripName(c) : c \in RawColumns(f)}
         IN [df |-> [columns |-> cols,
                     rows |-> [i \in DOMAIN RawRows(f) |->
                                 [c \in cols |->
                                    IF c = HireDate
                                    THEN CoerceDatetime(RawRows(f)[i][RawName(f, c)])
                                    ELSE RawRows(f)[i][RawName(f, c)]]],
                     dtypes |-> [c \in cols |-> FileDtype(f, c)]],
             error |-> PyNone]

\* uploaded_file.tell() when the gate reads it
FilePosition(f) == 0

\* f"{uploaded_file.name}_{uploaded_file.size}_{file_position}"
FileIdOf(f) == <<f, FileSize(f), FilePosition(f)>>

----------------------------------------------------------------------------
(* Filter engine and sidebar filters *)

\* Series.isin(values) on one cell
IsIn(v, values) == v \in values

\* variant: a null cell passes every predicate
apply_filters_fast_nullPasses(df, regions, roles, business_units, employee_types) ==
    LET keep(i, c, values) ==
            values = {} \/ c \notin df.columns \/ ~NotNa(df.rows[i][c])
               \/ IsIn(df.rows[i][c], values)
        mask == [i \in DOMAIN df.rows |->
                    /\ keep(i, Region, regions)
                    /\ keep(i, Role, roles)
                    /\ keep(i, BusinessUnit, business_units)
                    /\ keep(i, EmployeeType, employee_types)]
        kept == SelectSeq([i \in DOMAIN df.rows |-> i], LAMBDA i : mask[i])
    IN [df EXCEPT !.rows = [k \in DOMAIN kept |-> df.rows[kept[k]]]]

\* apply_filters_fast: the mask starts all True and is and-ed with isin for
\* each truthy predicate whose column the frame has; df[mask] is a new
\* frame.  An empty set stands for both None and the empty list.
apply_filters_fast(df, regions, roles, business_units, employee_types) ==
    LET m0 == [i \in DOMAIN df.rows |-> TRUE]
        m1 == IF regions /= {} /\ Region \in df.columns
              THEN [i \in DOMAIN df.rows |-> m0[i] /\ IsIn(df.rows[i][Region], regions)]
              ELSE m0
        m2 == IF roles /= {} /\ Role \in df.columns
              THEN [i \in DOMAIN df.rows |-> m1[i] /\ IsIn(df.rows[i][Role], roles)]
              ELSE m1
        m3 == IF business_units /= {} /\ BusinessUnit \in df.columns
              THEN [i \in DOMAIN df.rows |->
                       m2[i] /\ IsIn(df.rows[i][BusinessUnit], business_units)]
              ELSE m2
        mask == IF employee_types /= {} /\ EmployeeType \in df.columns
                THEN [i \in DOMAIN df.rows |->
                         m3[i] /\ IsIn(df.rows[i][EmployeeType], employee_types)]
                ELSE m3
        kept == SelectSeq([i \in DOMAIN df.rows |-> i], LAMBDA i : mask[i])
    IN [df EXCEPT !.rows = [k \in DOMAIN kept |-> df.rows[kept[k]]]]

\* columns behind the four sidebar multiselects
FilterCols == {Region, Role, BusinessUnit, EmployeeType}

\* the order in which the script draws them
FilterOrder == <<Region, Role, BusinessUnit, EmployeeType>>

\* the multiselects of Region, Role and Business Unit preselect at most
\* this many options
DefaultLimit == 20

\* sorted(df[c].dropna().unique()): the option list of one sidebar
\* multiselect, empty when the column is absent or the frame has no row,
\* TypeErrorRaised when the column holds numbers and text
filter_options(df, c) ==
    IF c \in df.columns /\ Count(df) > 0
    THEN Sorted({v \in {df.rows[i][c] : i \in DOMAIN df.rows} : NotNa(v)})
    ELSE <<>>

\* default=options if len(options) <= 20 else options[:20]
limited_default(options) ==
    IF Len(options) <= DefaultLimit THEN options
    ELSE SubSeq(options, 1, DefaultLimit)

\* the preselected options of the multiselect of column c, as a set
multiselect_default(c, options) ==
    IF c = EmployeeType THEN Range(options) ELSE Range(limited_default(options))

\* the default of the multiselect of column c over the frame df; no
\* multiselect and no selection when sorted() raised
filter_default(df, c) ==
    IF filter_options(df, c) = TypeErrorRaised THEN {}
    ELSE multiselect_default(c, filter_options(df, c))

\* filtered_df of a pass in which every multiselect is at its default
default_filtered_df(df) ==
    apply_filters_fast(df, filter_default(df, Region), filter_default(df, Role),
                       filter_default(df, BusinessUnit),
                       filter_default(df, EmployeeType))


----------------------------------------------------------------------------
(* Session state threaded through one run of the script *)

\* st.session_state at the start of a run, with the multiselects cl emptied
\* by the user and nothing drawn yet
Session(cl) ==
    [df |-> employee_df,
     last_id |-> last_uploaded_file_id,
     orig_count |-> original_employee_count,
     version |-> data_version,
     msgs |-> {},
     raised |-> FALSE,       \* an uncaught exception ended the run
     stopped |-> FALSE,      \* st.stop() ended the run
     rerun |-> FALSE,        \* st.rerun() ended the run
     cleared |-> cl,         \* multiselects whose stored value is empty
     options |-> rendered.options,
                             \* option list each multiselect was last drawn
                             \* with, <<>> for one that was not drawn
     clear |-> FALSE,        \* the Clear All Data button is drawn
     filters |-> {},         \* multiselects drawn in this run
     showing |-> <<>>,       \* "Showing n of N records"
     body |-> FALSE,         \* the run entered "if len(filtered_df) > 0:"
     edit |-> FALSE,         \* the edit form is drawn
     add |-> FALSE,          \* the add form is drawn
     total |-> Unset,        \* Total Employees metric at the top of tab1
     data_total |-> Unset,   \* Total Employees metric of "Employee Data"
     export |-> <<>>]        \* frame behind the download buttons

\* the run is over: nothing below the point it has reached is executed
Ended(s) == s.raised \/ s.stopped \/ s.rerun

\* st.stop()
Halt(s) == [s EXCEPT !.stopped = TRUE]

\* st.rerun(): the run ends here and the session asks for another one
Rerun(s) == [s EXCEPT !.rerun = TRUE]

\* variant: the gate does not compare the file id with the stored one
UploadGate_everyPass(s, up) ==
    IF up = NoFile
    THEN s
    ELSE LET res == process_uploaded_file(up)
         IN IF Truthy(res.error)
            THEN [s EXCEPT !.msgs = @ \cup {"Error loading file"}]
            ELSE IF IsNone(res.df)
            THEN [s EXCEPT !.df = res.df,
                           !.last_id = <<FileIdOf(up)>>,
                           !.raised = TRUE,
                           !.msgs = @ \cup {"TypeError"}]
            ELSE [s EXCEPT !.df = res.df,
                           !.last_id = <<FileIdOf(up)>>,
                           !.orig_count = Count(res.df),
                           !.msgs = @ \cup {"File loaded"}]

\* upload gate at the top of the script.  The branch is chosen by the
\* truthiness of the error text; with an empty text the assignments of the
\* else branch run on df = None until len(df) raises TypeError
UploadGate(s, up) ==
    IF up = NoFile \/ <<FileIdOf(up)>> = s.last_id
    THEN s
    ELSE LET res == process_uploaded_file(up)
         IN IF Truthy(res.error)
            THEN [s EXCEPT !.msgs = @ \cup {"Error loading file"}]
            ELSE IF IsNone(res.df)
            THEN [s EXCEPT !.df = res.df,
                           !.last_id = <<FileIdOf(up)>>,
                           !.raised = TRUE,
                           !.msgs = @ \cup {"TypeError"}]
            ELSE [s EXCEPT !.df = res.df,
                           !.last_id = <<FileIdOf(up)>>,
                           !.orig_count = Count(res.df),
                           !.msgs = @ \cup {"File loaded"}]

\* the block of a clicked Clear All Data button
ClearAllData(s) ==
    [s EXCEPT !.df = EmptyDF,
              !.last_id = NoneId,
              !.orig_count = 0,
              !.msgs = @ \cup {"Data cleared!"}]

\* the Clear All Data button below the gate: a run the gate ended with an
\* exception does not draw it; a click runs its block
ClearButton(s, clicked) ==
    IF Ended(s) THEN s
    ELSE IF clicked THEN ClearAllData([s EXCEPT !.clear = TRUE])
    ELSE [s EXCEPT !.clear = TRUE]

\* the script above the tabs: upload gate and Clear All Data button
Sidebar(cl, up, clicked) == ClearButton(UploadGate(Session(cl), up), clicked)

\* tab1 guard: st.info + st.stop() when the Table is empty
Tab1Stops(df) == IsEmpty(df)

----------------------------------------------------------------------------
(* Edit Employee section of the dashboard tab *)

\* str(value) of a cell
Str(v) ==
    CASE v = Null -> "nan"
      [] v = PyNone -> "None"
      [] v = Number75 -> "7.5"
      [] OTHER -> v

\* rows offered by the "Select Employee to Edit" selector
employees_with_email(df) ==
    IF WorkEmail \in df.columns
    THEN {i \in DOMAIN df.rows : NotNa(df.rows[i][WorkEmail])}
    ELSE {}

\* the edit form is drawn: the filtered view of the run holds a row and
\* some row of the Table has a Work Email
EditRendered(df, filtered_df) ==
    Count(filtered_df) > 0 /\ employees_with_email(df) /= {}

\* display_name of one selector option: f"{name} ({email})" as the pair of
\* its parts, the email alone (name part "") when the name is falsy or
\* 'Unknown'
DisplayName(r) ==
    LET name == Get(r, PreferredName, "Unknown")
    IN <<IF Truthy(name) /\ name /= "Unknown" THEN Str(name) ELSE "",
         r[WorkEmail]>>

\* the option the selector resolves to when the user picks the option of
\* row i: the first option carrying the same display name (the option list
\* is sorted by display name with a stable sort)
FirstWithDisplay(df, i) ==
    Min({j \in employees_with_email(df) :
            DisplayName(df.rows[j]) = DisplayName(df.rows[i])})

\* what the run derives from the selector: the email is the key and the
\* employee is the first row carrying it
Selection(df, i) ==
    LET k == FirstWithDisplay(df, i)
        email == df.rows[k][WorkEmail]
    IN [idx |-> Min(MatchIdx(df, email)),
        email |-> email,
        employee |-> df.rows[Min(MatchIdx(df, email))],
        pick |-> i]

get_dropdown_options(df, c, current) ==
    IF c \notin df.columns THEN {""}
    ELSE LET opts == {""} \cup {Str(df.rows[i][c]) : i \in
                         {j \in DOMAIN df.rows :
                             NotNa(df.rows[j][c]) /\ Strip(Str(df.rows[j][c])) /= ""}}
         IN IF Truthy(current) /\ current \notin opts /\ NotNa(current)
               /\ Str(current) /= ""
            THEN opts \cup {Str(current)}
            ELSE opts

\* options[get_dropdown_index(options, current)]
DropdownDefault(options, current) ==
    IF ~NotNa(current) \/ current = "" THEN ""
    ELSE IF Str(current) \in options THEN Str(current) ELSE ""

\* options[index] of a selectbox with a fixed option list
FixedDefault(options, current) ==
    LET cur == IF NotNa(current) THEN Str(current) ELSE ""
    IN IF cur \in Range(options) THEN cur ELSE ""

\* value a date_input of the edit form starts with
DateDefault(current) ==
    IF current \in Timestamps THEN DateOf(current)
    ELSE IF current \in Dates THEN current
    ELSE PyNone

\* the values the edit form shows for the selected employee
EditFormDefaults(df, employee) ==
    [c \in FormCols |->
        CASE c \in TextCols ->
               IF NotNa(Get(employee, c, "")) THEN Str(Get(employee, c, "")) ELSE ""
          [] c \in DateCols -> DateDefault(Get(employee, c, PyNone))
          [] c \in DropdownCols ->
               DropdownDefault(get_dropdown_options(df, c, Get(employee, c, "")),
                               Get(employee, c, ""))
          [] c = EmployeeType ->
               FixedDefault(employee_type_options, Get(employee, c, ""))
          [] OTHER ->
               FixedDefault(yes_no_options, Get(employee, c, ""))]

\* what the user can put into one field of the edit form; the dropdowns
\* other than Region are left as the form shows them
EditInputs(df, employee, c) ==
    CASE c = PreferredName -> {"", " ", "Zed"}
      [] c = WorkEmail -> {"", " ", "b@x", "z@x"}
      [] c = Personal -> {" ", "p1"}
      [] c = HireDate -> {PyNone, DateOne}
      [] c = Region -> get_dropdown_options(df, c, Get(employee, c, ""))
      [] c = EmployeeType -> {"", "Contract"}
      [] c = CapstoneLoaded -> {"", "Yes"}
      [] OTHER -> {}

\* forms the user can submit: the defaults with at most k fields changed
RECURSIVE EditForms(_, _, _, _)
EditForms(df, employee, defaults, k) ==
    IF k = 0 THEN {defaults}
    ELSE LET prev == EditForms(df, employee, defaults, k - 1)
         IN prev \cup {[f EXCEPT ![c] = v] :
                         <<f, c, v>> \in
                           {<<g, d, w>> \in prev \X FormCols \X
                               UNION {EditInputs(df, employee, e) : e \in FormCols} :
                               w \in EditInputs(df, employee, d)}}

----------------------------------------------------------------------------
(* Save Changes handler of the edit form *)

\* one entry of the updated_employee / new_employee dictionary literal
FormValue(c, v) ==
    IF c \in RequiredCols THEN v
    ELSE IF c \in DateCols THEN (IF Truthy(v) THEN ToDatetime(v) ELSE PyNone)
    ELSE IF Truthy(v) THEN v ELSE PyNone

\* the dictionary literal, built from the widgets of the form, completed
\* with the columns of the Table that are no key of it
updated_employee(df, employee, form) ==
    [c \in FormCols \cup df.columns |->
        IF c \in FormCols THEN FormValue(c, form[c]) ELSE Get(employee, c, PyNone)]

\* "Convert empty strings to None" loop over every key of the dictionary
BlankToNone(v) == IF v = "" \/ (IsStr(v) /\ Strip(v) = "") THEN PyNone ELSE v

\* variant: the old row is dropped and the new one concatenated at the end
LocWrite_dropAppend(df, idx, row) ==
    LET keep == SelectSeq([i \in DOMAIN df.rows |-> <<i, df.rows[i]>>],
                          LAMBDA p : p[1] /= idx)
        dtypes == [c \in df.columns |-> WriteDtype(df.dtypes[c], row[c])]
    IN [df EXCEPT !.rows = Append([k \in DOMAIN keep |-> keep[k][2]],
                                  [c \in df.columns |-> Cast(dtypes[c], row[c])]),
                  !.dtypes = dtypes]

\* original_df.loc[idx, col] = row[col] raises TypeError for some column:
\* from pandas 3 on, when the dtype of the column cannot hold the value
LocRaises(df, row) ==
    /\ build = PandasNew
    /\ \E c \in df.columns : Incompatible(df.dtypes[c], row[c])

\* original_df.loc[idx, col] = row[col] for every column, when no
\* assignment raises: an existing label is overwritten, a label outside the
\* index enlarges the frame by one row; a column that cannot hold its value
\* has become an object column, whose other cells keep their values
LocWrite(df, idx, row) ==
    LET dtypes == [c \in df.columns |-> WriteDtype(df.dtypes[c], row[c])]
        cells == [c \in df.columns |-> Cast(dtypes[c], row[c])]
    IN IF idx \in DOMAIN df.rows
       THEN [df EXCEPT !.rows[idx] = cells, !.dtypes = dtypes]
       ELSE [df EXCEPT !.rows = Append(@, cells), !.dtypes = dtypes]

\* row the email lookup resolves to; 0 when it finds no match
actual_idx(df, sel) ==
    LET matches == MatchIdx(df, sel.email)
    IN IF matches /= {} THEN Min(matches) ELSE 0

\* variant: the row is replaced by the dictionary without the column
\* back-fill of the other rows
updated_df_noBackfill(df, sel, form) ==
    LET upd == updated_employee(df, sel.employee, form)
        rec == [c \in DOMAIN upd |-> BlankToNone(upd[c])]
        idx == actual_idx(df, sel)
    IN IF idx \in DOMAIN df.rows
       THEN [df EXCEPT !.rows[idx] = rec]
       ELSE [df EXCEPT !.rows = Append(@, rec)]

\* variant: the row is written from the raw widget values
updated_df_raw(df, sel, form) ==
    LocWrite(AddColumns(df, FormCols \ df.columns), actual_idx(df, sel),
             [c \in FormCols \cup df.columns |->
                IF c \in FormCols THEN form[c] ELSE Get(sel.employee, c, PyNone)])

\* variant: the merged table keeps only the columns the form shows
updated_df_formOnly(df, sel, form) ==
    LET upd == updated_employee(df, sel.employee, form)
        original_df == AddColumns(df, FormCols \ df.columns)
        full == LocWrite(original_df, actual_idx(df, sel),
                         [c \in DOMAIN upd |-> BlankToNone(upd[c])])
    IN [columns |-> FormCols,
        rows |-> [i \in DOMAIN full.rows |->
                    [c \in FormCols |-> full.rows[i][c]]],
        dtypes |-> [c \in FormCols |-> full.dtypes[c]]]

\* merged table before the count check: the copy of the Table gets every
\* key of the dictionary as a column, blank values become None and the row
\* is written with .loc
updated_df(df, sel, form) ==
    LET upd == updated_employee(df, sel.employee, form)
        original_df == AddColumns(df, FormCols \ df.columns)
    IN LocWrite(original_df, actual_idx(df, sel),
                [c \in DOMAIN upd |-> BlankToNone(upd[c])])

\* a .loc assignment of the handler raises TypeError: the dictionary holds,
\* after the blank-to-None loop, a value the dtype of its column cannot
\* hold.  The columns the handler has added are object columns, which hold
\* every value, so the columns of the Table decide.
UpdateRaises(df, sel, form) ==
    LET upd == updated_employee(df, sel.employee, form)
    IN LocRaises(df, [c \in df.columns |-> BlankToNone(upd[c])])

\* new_count != original_count
CountMismatch(df, new) == Count(new) /= Count(df)

\* variant: the handler concatenates the edited record to the Table and
\* commits without the count check
EditSubmit_concat(s, sel, form) ==
    IF ~Truthy(form[PreferredName]) \/ ~Truthy(form[WorkEmail])
    THEN [s |-> [s EXCEPT !.msgs = @ \cup {"Please fill in required fields"}],
          result |-> "required", target |-> 0]
    ELSE IF actual_idx(s.df, sel) = 0
    THEN [s |-> Halt([s EXCEPT !.msgs = @ \cup {"Employee not found in database"}]),
          result |-> "not_found", target |-> 0]
    ELSE IF UpdateRaises(s.df, sel, form)
    THEN [s |-> [s EXCEPT !.raised = TRUE,
                          !.msgs = @ \cup {"TypeError: Invalid value for dtype"}],
          result |-> "raised", target |-> actual_idx(s.df, sel)]
    ELSE LET upd == updated_employee(s.df, sel.employee, form)
             original_df == AddColumns(s.df, FormCols \ s.df.columns)
             new == LocWrite(original_df, Count(s.df) + 1,
                             [c \in DOMAIN upd |-> BlankToNone(upd[c])])
         IN [s |-> Rerun([s EXCEPT
                            !.df = new,
                            !.version = @ + 1,
                            !.msgs = @ \cup {"updated successfully"}]),
             result |-> "committed", target |-> actual_idx(s.df, sel)]

\* the whole "if submitted:" block of the edit form; s is the run down to
\* the form.  The handler works on a copy of the Table: a run that ends
\* with an exception in it has stored nothing.
EditSubmit(s, sel, form) ==
    IF ~Truthy(form[PreferredName]) \/ ~Truthy(form[WorkEmail])
    THEN [s |-> [s EXCEPT !.msgs = @ \cup {"Please fill in required fields"}],
          result |-> "required", target |-> 0]
    ELSE IF actual_idx(s.df, sel) = 0
    THEN [s |-> Halt([s EXCEPT !.msgs = @ \cup {"Employee not found in database"}]),
          result |-> "not_found", target |-> 0]
    ELSE IF UpdateRaises(s.df, sel, form)
    THEN [s |-> [s EXCEPT !.raised = TRUE,
                          !.msgs = @ \cup {"TypeError: Invalid value for dtype"}],
          result |-> "raised", target |-> actual_idx(s.df, sel)]
    ELSE LET new == updated_df(s.df, sel, form)
         IN IF CountMismatch(s.df, new)
            THEN [s |-> [s EXCEPT !.msgs = @ \cup {"Row count mismatch"}],
                  result |-> "count_mismatch", target |-> actual_idx(s.df, sel)]
            ELSE [s |-> Rerun([s EXCEPT
                     !.df = new,
                     !.version = @ + 1,
                     !.msgs = @ \cup
                        (IF MatchIdx(new, form[WorkEmail]) /= {}
                         THEN {"updated successfully"}
                         ELSE {"CRITICAL ERROR: not found after update"})]),
                  result |-> "committed", target |-> actual_idx(s.df, sel)]

----------------------------------------------------------------------------
(* Add Employee tab *)

\* values the add form starts with: empty text inputs, first option of
\* every selectbox, and today's date in the date inputs
AddFormDefaults ==
    [c \in FormCols |-> IF c \in DateCols THEN DateToday ELSE ""]

\* what the user can put into one optional field of the add form; the
\* other text inputs are left empty
AddInputs(c) ==
    CASE c = Personal -> {"p1"}
      [] c = HireDate -> {DateOne}
      [] c = Region -> {"West"}
      [] c = EmployeeType -> {"Contract"}
      [] OTHER -> {}

\* name and email the user can enter into the add form
AddRequired == {<<"Cy", "a@x">>, <<"Cy", "c@x">>, <<"Cy", "">>, <<"", "c@x">>}

\* forms the user can submit: a name and an email and, when both are
\* filled in, at most k (0 or 1) optional fields
AddForms(k) ==
    LET base == {[AddFormDefaults EXCEPT ![PreferredName] = p[1], ![WorkEmail] = p[2]] :
                    p \in AddRequired}
        valid == {f \in base : f[PreferredName] /= "" /\ f[WorkEmail] /= ""}
    IN IF k <= 0 THEN base
       ELSE base \cup UNION {{[f EXCEPT ![c] = v] : v \in AddInputs(c)} :
                               <<f, c>> \in valid \X (FormCols \ RequiredCols)}

new_employee(form) == [c \in FormCols |-> FormValue(c, form[c])]

\* pd.DataFrame([record])
new_df(record) ==
    [columns |-> DOMAIN record,
     rows |-> <<record>>,
     dtypes |-> [c \in DOMAIN record |-> InferDtype(record[c])]]

\* every cell of column c of the frame is missing
AllNa(df, c) == \A i \in DOMAIN df.rows : ~NotNa(df.rows[i][c])

\* variant: the new frame replaces the Table instead of being concatenated
ConcatRow_replace(df, row) ==
    AddColumns(new_df(row), df.columns \ DOMAIN row)

\* variant: pd.concat([new_df, employee_df], ignore_index=True)
ConcatRow_prepend(df, row) ==
    LET all_cols == df.columns \cup DOMAIN row
        old == AddColumns(df, all_cols \ df.columns)
        new == AddColumns(new_df(row), all_cols \ DOMAIN row)
        dtypes == [c \in all_cols |->
                      ConcatDtype(new.dtypes[c], AllNa(new, c),
                                  old.dtypes[c], AllNa(old, c))]
    IN [columns |-> all_cols,
        rows |-> [i \in 1..(Count(old) + 1) |->
                    [c \in all_cols |->
                       Cast(dtypes[c], IF i = 1 THEN new.rows[1][c]
                                       ELSE old.rows[i - 1][c])]],
        dtypes |-> dtypes]

\* variant: the frames are concatenated with join="inner"
ConcatRow_inner(df, row) ==
    LET common == df.columns \cap DOMAIN row
        new == new_df(row)
        dtypes == [c \in common |->
                      ConcatDtype(df.dtypes[c], AllNa(df, c),
                                  new.dtypes[c], AllNa(new, c))]
    IN [columns |-> common,
        rows |-> [i \in 1..(Count(df) + 1) |->
                    [c \in common |->
                       Cast(dtypes[c], IF i <= Count(df) THEN df.rows[i][c]
                                       ELSE new.rows[1][c])]],
        dtypes |-> dtypes]

\* pd.concat([employee_df, new_df], ignore_index=True) after both frames
\* were given each other's columns (df[col] = None).  Each column gets the
\* dtype of the join; a None that joins a datetime64, float64 or str column
\* reads back NaT / NaN, every other cell keeps its value.
ConcatRow(df, row) ==
    LET all_cols == df.columns \cup DOMAIN row
        old == AddColumns(df, all_cols \ df.columns)
        new == AddColumns(new_df(row), all_cols \ DOMAIN row)
        dtypes == [c \in all_cols |->
                      ConcatDtype(old.dtypes[c], AllNa(old, c),
                                  new.dtypes[c], AllNa(new, c))]
    IN [columns |-> all_cols,
        rows |-> [i \in 1..(Count(old) + 1) |->
                    [c \in all_cols |->
                       Cast(dtypes[c], IF i <= Count(old) THEN old.rows[i][c]
                                       ELSE new.rows[1][c])]],
        dtypes |-> dtypes]

\* variant: the form is rejected only when both required fields are empty
AddSubmit_bothEmpty(s, form) ==
    IF ~Truthy(form[PreferredName]) /\ ~Truthy(form[WorkEmail])
    THEN [s |-> [s EXCEPT !.msgs = @ \cup {"Please fill in required fields"}],
          result |-> "required"]
    ELSE [s |-> Rerun([s EXCEPT
                   !.df = IF IsEmpty(s.df)
                          THEN new_df(new_employee(form))
                          ELSE ConcatRow(s.df, new_employee(form)),
                   !.msgs = @ \cup {"added successfully"}]),
          result |-> "committed"]

\* the whole "if submitted:" block of the add form; s is the run down to
\* the form
AddSubmit(s, form) ==
    IF ~Truthy(form[PreferredName]) \/ ~Truthy(form[WorkEmail])
    THEN [s |-> [s EXCEPT !.msgs = @ \cup {"Please fill in required fields"}],
          result |-> "required"]
    ELSE [s |-> Rerun([s EXCEPT
                   !.df = IF IsEmpty(s.df)
                          THEN new_df(new_employee(form))
                          ELSE ConcatRow(s.df, new_employee(form)),
                   !.msgs = @ \cup {"added successfully"}]),
          result |-> "committed"]

----------------------------------------------------------------------------
(* Dashboard tab: metric, sidebar filters, class lists and export *)

\* source column and render-only column of the three class list sections
ClassLists == <<<<BootCampInPerson, "Boot Camp Class">>,
                <<VILT, "VILT Class">>,
                <<TransferPromo, "Transfer/Promo Type">>>>

DerivedCols == {ClassLists[k][2] : k \in DOMAIN ClassLists}

\* employee_df[employee_df[source].notna()].copy()
class_base_data(df, source) ==
    [df EXCEPT !.rows = SelectSeq(df.rows, LAMBDA r : NotNa(r[source]))]

\* data[derived] = data[source].astype(str)
WithDerived(df, source, derived) ==
    [columns |-> df.columns \cup {derived},
     rows |-> [i \in DOMAIN df.rows |->
                 [c \in df.columns \cup {derived} |->
                    IF c = derived THEN Str(df.rows[i][source])
                    ELSE df.rows[i][c]]],
     dtypes |-> [c \in df.columns \cup {derived} |->
                    IF c = derived THEN TextDtype ELSE df.dtypes[c]]]

\* variant: the render-only column is assigned on the session frame
class_list_section_inPlace(df, source, derived) ==
    IF source \notin df.columns
    THEN [table |-> df, view |-> EmptyDF]
    ELSE LET data == class_base_data(df, source)
         IN IF Count(data) > 0
            THEN [table |-> WithDerived(df, source, derived),
                  view |-> WithDerived(data, source, derived)]
            ELSE [table |-> df, view |-> EmptyDF]

\* one class list section with its filter checkbox off: the session frame
\* it leaves behind and the frame it draws; the render-only column is
\* assigned on a copy
class_list_section(df, source, derived) ==
    IF source \notin df.columns
    THEN [table |-> df, view |-> EmptyDF]
    ELSE LET data == class_base_data(df, source)
         IN IF Count(data) > 0
            THEN [table |-> df, view |-> WithDerived(data, source, derived)]
            ELSE [table |-> df, view |-> EmptyDF]

\* the three sections in script order; table is the session frame after them
ClassSections(df) ==
    LET a == class_list_section(df, ClassLists[1][1], ClassLists[1][2])
        b == class_list_section(a.table, ClassLists[2][1], ClassLists[2][2])
        c == class_list_section(b.table, ClassLists[3][1], ClassLists[3][2])
    IN [table |-> c.table, views |-> <<a.view, b.view, c.view>>]

\* the multiselect of column c, drawn in this run with the option list
\* options, keeps its emptied value: it was emptied, and options is the
\* list it was last drawn with (a multiselect with another option list is
\* a new widget and starts from its default)
KeepsCleared(s, c, options) ==
    /\ c \in s.cleared
    /\ options /= <<>>
    /\ options = s.options[c]

\* value of the multiselect of column c in this run; empty for a column
\* without multiselect
Selected(s, c, options) ==
    IF KeepsCleared(s, c, options) THEN {} ELSE multiselect_default(c, options)

\* a run that ended before the dashboard: nothing is drawn and the
\* multiselects are gone
Undrawn(s) ==
    [s EXCEPT !.cleared = {}, !.options = [c \in FilterCols |-> <<>>],
              !.filters = {}, !.showing = <<>>,
              !.body = FALSE, !.edit = FALSE, !.add = FALSE,
              !.total = Unset, !.data_total = Unset, !.export = <<>>]

\* the sidebar filters of a run over df, in script order: the option list
\* of each column, drawn as a multiselect when it holds an option; the run
\* ends at the first column whose sorted() raises
SidebarFilters(df) ==
    LET opts == [c \in FilterCols |-> filter_options(df, c)]
        failing == {k \in DOMAIN FilterOrder : opts[FilterOrder[k]] = TypeErrorRaised}
        reached == {FilterOrder[k] : k \in {j \in DOMAIN FilterOrder :
                                               \A i \in failing : j < i}}
        drawn == {c \in reached : opts[c] /= <<>>}
    IN [raised |-> failing /= {},
        drawn |-> drawn,
        options |-> [c \in FilterCols |-> IF c \in drawn THEN opts[c] ELSE <<>>]]
\* tab1 down to the edit form: the run ends with AttributeError on a None
\* Table and with st.stop() on an empty one; else the Total Employees
\* metric of compute_metrics and the sidebar filters, where the run ends
\* with TypeError when a filter column holds numbers and text; else
\* "Showing n of N" and - when the filtered view holds a row - the class
\* lists and the edit form
Tab1Upper(s) ==
    IF Ended(s) THEN Undrawn(s)
    ELSE IF IsNone(s.df)
    THEN [Undrawn(s) EXCEPT !.raised = TRUE, !.msgs = @ \cup {"AttributeError"}]
    ELSE IF Tab1Stops(s.df)
    THEN Halt(Undrawn(s))
    ELSE LET sidebar == SidebarFilters(s.df)
             drawn == sidebar.drawn
             options == sidebar.options
             kept == {c \in drawn : KeepsCleared(s, c, options[c])}
         IN IF sidebar.raised
            THEN [s EXCEPT !.total = Count(s.df),
                           !.cleared = kept,
                           !.options = options,
                           !.filters = drawn,
                           !.raised = TRUE,
                           !.msgs = @ \cup {"TypeError: '<' not supported"}]
            ELSE LET filtered_df ==
                         apply_filters_fast(s.df,
                                            Selected(s, Region, options[Region]),
                                            Selected(s, Role, options[Role]),
                                            Selected(s, BusinessUnit, options[BusinessUnit]),
                                            Selected(s, EmployeeType, options[EmployeeType]))
                     body == Count(filtered_df) > 0
                     t == IF body THEN ClassSections(s.df).table ELSE s.df
                 IN [s EXCEPT !.df = t,
                              !.total = Count(s.df),
                              !.cleared = kept,
                              !.options = options,
                              !.filters = drawn,
                              !.showing = <<Count(filtered_df), Count(s.df)>>,
                              !.body = body,
                              !.edit = EditRendered(t, filtered_df)]

\* the debug expander of "Employee Data" indexes the Table by these columns
DebugCols == {PreferredName, WorkEmail}

\* tab1 below the edit form: inside the body the second Total Employees
\* metric and the debug expander, which raises KeyError on a Table with a
\* row and without one of its two columns; then the download buttons
Tab1Lower(s) ==
    IF Ended(s) THEN s
    ELSE IF s.body /\ Count(s.df) > 0 /\ ~(DebugCols \subseteq s.df.columns)
    THEN [s EXCEPT !.data_total = Count(s.df),
                   !.raised = TRUE,
                   !.msgs = @ \cup {"KeyError"}]
    ELSE [s EXCEPT !.data_total = IF s.body THEN Count(s.df) ELSE Unset,
                   !.export = <<s.df>>]

\* tab1 without a Save Changes click
Tab1(s) == Tab1Lower(Tab1Upper(s))

\* tab2 without an Add Employee click: the add form
Tab2(s) == IF Ended(s) THEN s ELSE [s EXCEPT !.add = TRUE]

----------------------------------------------------------------------------
(* Runs of the script *)

NoForm == [c \in FormCols |-> Null]

Event(op, result, pick, target, form, msgs) ==
    [op |-> op, result |-> result, pick |-> pick, target |-> target,
     form |-> form, msgs |-> msgs]

\* the session state and what is drawn when a run has ended
Finish(s) ==
    /\ employee_df' = s.df
    /\ last_uploaded_file_id' = s.last_id
    /\ original_employee_count' = s.orig_count
    /\ data_version' = s.version
    /\ cleared' = s.cleared
    /\ rerun_requested' = s.rerun
    /\ rendered' = [edit |-> s.edit,
                    add |-> s.add,
                    total |-> s.total,
                    data_total |-> s.data_total,
                    export |-> s.export,
                    filters |-> s.filters,
                    options |-> s.options,
                    clear |-> s.clear,
                    showing |-> s.showing]

Init ==
    /\ employee_df = EmptyDF
    /\ last_uploaded_file_id = NoneId
    /\ original_employee_count = Unset
    /\ data_version = 0
    /\ uploaded_file = NoFile
    /\ cleared = {}
    /\ rendered = [edit |-> FALSE, add |-> FALSE, total |-> Unset,
                   data_total |-> Unset, export |-> <<>>, filters |-> {},
                   options |-> [c \in FilterCols |-> <<>>], clear |-> FALSE,
                   showing |-> <<>>]
    /\ rerun_requested = FALSE
    /\ build \in Builds
    /\ nops = 0
    /\ nedits = 0
    /\ ev = Event("start", "none", 0, 0, NoForm, {})

\* Each action is one run of the script.  The run is bound with \E over a
\* one-element set: the session it ends with is one value, from which the
\* next state is read.

\* what the gate did in a run, from the messages of the run
GateResult(msgs) ==
    IF "File loaded" \in msgs THEN "ingested"
    ELSE IF "TypeError" \in msgs THEN "raised"
    ELSE IF "Error loading file" \in msgs THEN "error"
    ELSE "none"

\* the user puts a file into the uploader of a page a run has left to
\* them
Upload(f) ==
    /\ ~rerun_requested
    /\ f /= uploaded_file
    /\ uploaded_file' = f
    /\ \E s \in {Tab2(Tab1(Sidebar(cleared, f, FALSE)))} :
          /\ Finish(s)
          /\ ev' = Event("upload", GateResult(s.msgs), 0, 0, NoForm, s.msgs)
    /\ UNCHANGED <<build, nops, nedits>>

\* the user removes the file from the uploader
RemoveFile ==
    /\ ~rerun_requested
    /\ uploaded_file /= NoFile
    /\ uploaded_file' = NoFile
    /\ \E s \in {Tab2(Tab1(Sidebar(cleared, NoFile, FALSE)))} :
          /\ Finish(s)
          /\ ev' = Event("remove", "none", 0, 0, NoForm, s.msgs)
    /\ UNCHANGED <<build, nops, nedits>>

\* the user clicks the Clear All Data button the last run has drawn; the
\* button is below the gate, so a run the gate ends with an exception does
\* not reach it
Clear ==
    /\ ~rerun_requested
    /\ rendered.clear
    /\ \E g \in {Sidebar(cleared, uploaded_file, TRUE)} :
          \E s \in {Tab2(Tab1(g))} :
             /\ Finish(s)
             /\ ev' = Event("clear", IF g.raised THEN "raised" ELSE "cleared",
                            0, 0, NoForm, s.msgs)
    /\ UNCHANGED <<uploaded_file, build, nops, nedits>>

\* a run without upload, clear, filter change or submit: the run that
\* st.rerun() asked for, which starts at once and is the only run that can
\* follow the request; else a search or class selector change while the
\* dashboard is drawn, or a rerun of the script from the app menu (Rerun /
\* the R key), which is possible on every page
Rerender ==
    /\ \E s \in {Tab2(Tab1(Sidebar(cleared, uploaded_file, FALSE)))} :
          /\ Finish(s)
          /\ ev' = Event("rerender", "none", 0, 0, NoForm, s.msgs)
    /\ UNCHANGED <<uploaded_file, build, nops, nedits>>

\* the user empties the sidebar multiselect of column c of a page a run has
\* left to them, or selects its options again; a widget change is charged
\* to the same budget as a changed form field
FilterChange(c) ==
    /\ ~rerun_requested
    /\ c \in rendered.filters
    /\ nedits < MaxEdits
    /\ nedits' = nedits + 1
    /\ \E s \in {Tab2(Tab1(Sidebar(IF c \in cleared THEN cleared \ {c}
                                     ELSE cleared \cup {c},
                                     uploaded_file, FALSE)))} :
          /\ Finish(s)
          /\ ev' = Event("filter", "none", 0, 0, NoForm, s.msgs)
    /\ UNCHANGED <<uploaded_file, build, nops>>

\* number of fields among cols in which the submitted form differs from the
\* shown one
Changed(form, defaults, cols) == Cardinality({c \in cols : form[c] /= defaults[c]})

\* the run of a Save Changes click, with the selection sel of the form; s0
\* is the run down to the edit form.  After st.rerun() or st.stop() in the
\* handler nothing below the form is executed.
SavePass(s0, pick, sel, form) ==
    \E r \in {EditSubmit(s0, sel, form)} :
       \E s1 \in {Tab2(Tab1Lower(r.s))} :
          /\ Finish(s1)
          /\ nops' = IF r.result = "committed" THEN nops + 1 ELSE nops
          /\ nedits' = nedits + Changed(form, EditFormDefaults(s0.df, sel.employee),
                                        FormCols)
          /\ ev' = Event("save", r.result, pick, r.target, form, s1.msgs)

\* forms the user can submit after picking the option of row i
SaveForms(df, i) ==
    LET employee == Selection(df, i).employee
    IN EditForms(df, employee, EditFormDefaults(df, employee), MaxEdits - nedits)

\* the user picks an option of the selector, edits the form and clicks
\* Save Changes on a page that a run has drawn and left to the user; the
\* handler runs in a run that draws the form
SaveChanges ==
    /\ ~rerun_requested
    /\ rendered.edit
    /\ nops < MaxOps
    /\ \E s0 \in {Tab1Upper(Sidebar(cleared, uploaded_file, FALSE))} :
          /\ s0.edit
          /\ \E i \in employees_with_email(s0.df) :
                \E form \in SaveForms(s0.df, i) :
                   SavePass(s0, i, Selection(s0.df, i), form)
    /\ UNCHANGED <<uploaded_file, build>>

\* the user fills the add form and clicks Add Employee on a page that a run
\* has drawn and left to the user; the handler runs in a run that reaches
\* the add form, after the whole of tab1
AddEmployee ==
    /\ ~rerun_requested
    /\ rendered.add
    /\ nops < MaxOps
    /\ Count(employee_df) < MaxRows
    /\ \E s0 \in {Tab2(Tab1(Sidebar(cleared, uploaded_file, FALSE)))} :
          /\ s0.add
          /\ \E form \in AddForms(MaxEdits - nedits) :
                \E r \in {AddSubmit(s0, form)} :
                   /\ Finish(r.s)
                   /\ nops' = IF r.result = "committed" THEN nops + 1 ELSE nops
                   /\ nedits' = nedits + Changed(form, AddFormDefaults,
                                                 FormCols \ RequiredCols)
                   /\ ev' = Event("add", r.result, 0, 0, form, r.s.msgs)
    /\ UNCHANGED <<uploaded_file, build>>

Next ==
    \/ \E f \in Files : Upload(f)
    \/ RemoveFile
    \/ Clear
    \/ Rerender
    \/ \E c \in FilterCols : FilterChange(c)
    \/ SaveChanges
    \/ AddEmployee

Spec == Init /\ [][Next]_vars

----------------------------------------------------------------------------
(* Properties *)

\* both values are missing, or they are the same value
SameValue(a, b) == (~NotNa(a) /\ ~NotNa(b)) \/ a = b

\* the pre-existing columns of row i are the same before and after the step
RowKept(i) ==
    /\ i \in DOMAIN employee_df'.rows
    /\ \A c \in employee_df.columns :
          /\ c \in employee_df'.columns
          /\ employee_df'.rows[i][c] = employee_df.rows[i][c]

\* C1: a committed update leaves the row count of the Table equal to the
\* count before the update
C1_UpdateKeepsRowCount ==
    [][(ev'.op = "save" /\ ev'.result = "committed")
          => Count(employee_df') = Count(employee_df)]_vars

C1_Witness ==
    /\ ev.op = "save"
    /\ ev.result = "committed"
    /\ Count(employee_df) = 2
    /\ data_version = 1

\* C2: a successful append makes the row count one larger than before
C2_AppendAddsOneRow ==
    [][(ev'.op = "add" /\ ev'.result = "committed")
          => Count(employee_df') = Count(employee_df) + 1]_vars

C2_Witness ==
    /\ ev.op = "add"
    /\ ev.result = "committed"
    /\ Count(employee_df) = 3

\* C3: a successful update leaves every column the form does not cover
\* unchanged in the target row, and every covered column holds
\* normalize(submitted value), where normalize maps the empty string to
\* null and leaves every other value as submitted (a date is stored as the
\* timestamp of its midnight)
C3_MergeCorrect ==
    [][(ev'.op = "save" /\ ev'.result = "committed")
          => LET normalize(c, v) ==
                    IF v = "" \/ ~NotNa(v) THEN PyNone
                    ELSE IF c \in DateCols THEN ToDatetime(v) ELSE v
             IN /\ \A c \in employee_df.columns \ FormCols :
                      SameValue(employee_df'.rows[ev'.target][c],
                                employee_df.rows[ev'.target][c])
                /\ \A c \in FormCols :
                      SameValue(employee_df'.rows[ev'.target][c],
                                normalize(c, ev'.form[c]))]_vars

\* C4: an update changes the row the user picked in the selector and no
\* other row, also when several rows carry the same Work Email
C4_OnlyPickedRowChanges ==
    [][(ev'.op = "save" /\ ev'.result = "committed")
          => \A j \in DOMAIN employee_df.rows : j /= ev'.pick => RowKept(j)]_vars

\* C7: the Add Employee form is available on every page a run has drawn
\* and left to the user, also while the Table is empty
C7_AddAlwaysAvailable == (ev.op /= "start" /\ ~rerun_requested) => rendered.add

\* C8: a successful append stores null in the new row for every column the
\* user did not supply
C8_UnsuppliedColumnsNull ==
    (ev.op = "add" /\ ev.result = "committed")
       => \A c \in employee_df.columns \ RequiredCols :
             (c \notin FormCols \/ ev.form[c] = AddFormDefaults[c])
                => ~NotNa(employee_df.rows[Count(employee_df)][c])

\* row the Save Changes pass of this step resolves to
StepTarget == actual_idx(employee_df, Selection(employee_df, ev'.pick))

\* C9 as stated: a field submitted as "" is stored as null in the target
\* row, for every field of the edit form
C9_Original ==
    [][(ev'.op = "save")
          => \A c \in FormCols :
                ev'.form[c] = ""
                   => /\ c \in employee_df'.columns
                      /\ ~NotNa(employee_df'.rows[StepTarget][c])]_vars

\* C9 amended: in a committed update every field submitted as "" is stored
\* as null in the target row; a form with "" in Preferred Name or Work
\* Email is rejected and leaves the Table unchanged
C9_BlankStoredAsNull ==
    [][(ev'.op = "save")
          => /\ ev'.result = "committed"
                => \A c \in FormCols :
                      ev'.form[c] = ""
                         => ~NotNa(employee_df'.rows[ev'.target][c])
             /\ (ev'.form[PreferredName] = "" \/ ev'.form[WorkEmail] = "")
                => /\ ev'.result = "required"
                   /\ employee_df' = employee_df]_vars

C9_Witness ==
    /\ ev.op = "save"
    /\ ev.result = "committed"
    /\ last_uploaded_file_id = <<FileIdOf(FileTeam)>>
    /\ ev.target = 1
    /\ process_uploaded_file(FileTeam).df.rows[1][Region] = "East"
    /\ ev.form[Region] = ""
    /\ ~NotNa(employee_df.rows[1][Region])

\* C10: an append with an empty Preferred Name or Work Email is rejected
\* with an error and leaves the Table unchanged
C10_InvalidAppendRejected ==
    [][(ev'.op = "add"
           /\ (~Truthy(ev'.form[PreferredName]) \/ ~Truthy(ev'.form[WorkEmail])))
          => /\ employee_df' = employee_df
             /\ ev'.result = "required"
             /\ "Please fill in required fields" \in ev'.msgs]_vars

C10_Witness ==
    /\ ev.op = "add"
    /\ ev.result = "required"
    /\ ev.form[PreferredName] = "Cy"
    /\ ev.form[WorkEmail] = ""
    /\ Count(employee_df) = 2

\* the form of this step is the one the edit form showed, no field changed
StepFormUntouched ==
    ev'.form = EditFormDefaults(employee_df,
                                Selection(employee_df, ev'.pick).employee)

\* C11: saving the edit form without changing a field leaves the stored
\* value of every form-covered column of every row as it was (a missing
\* value stays missing)
C11_UntouchedSaveKeepsValues ==
    [][(ev'.op = "save" /\ ev'.result = "committed" /\ StepFormUntouched)
          => \A j \in DOMAIN employee_df.rows :
                \A c \in FormCols \cap employee_df.columns :
                   SameValue(employee_df'.rows[j][c], employee_df.rows[j][c])]_vars

\* C12: a committed update keeps the row count and leaves every row other
\* than the target row at its position with the same value in every
\* pre-existing column
C12_OtherRowsKept ==
    [][(ev'.op = "save" /\ ev'.result = "committed")
          => /\ Count(employee_df') = Count(employee_df)
             /\ \A j \in DOMAIN employee_df.rows :
                   j /= ev'.target => RowKept(j)]_vars

C12_Witness ==
    /\ ev.op = "save"
    /\ ev.result = "committed"
    /\ ev.target = 2
    /\ ev.form[PreferredName] = "Zed"
    /\ last_uploaded_file_id = <<FileIdOf(FileTeam)>>
    /\ Count(employee_df) = 2
    /\ employee_df.rows[2][PreferredName] = "Zed"
    /\ employee_df.rows[2][WorkEmail] = "b@x"
    /\ employee_df.rows[1][PreferredName] = "Ann"

\* every row carries exactly the columns of the frame
RowsComplete(df) == \A i \in DOMAIN df.rows : DOMAIN df.rows[i] = df.columns

\* the gate of the run of this step ingested the file in the uploader and
\* no handler ran after it
StepIngests ==
    /\ "File loaded" \in ev'.msgs
    /\ ev'.op \in {"upload", "rerender", "remove", "filter"}

\* C13: an ingest sets the column set of the Table to the columns of the
\* file, a committed append sets it to the union of the columns before and
\* the columns of the appended record, and after either every row has a
\* value for every column (so after any sequence of ingests and appends the
\* column set is the union of the last file's columns and the appended ones)
C13_ColumnUnion ==
    [][/\ StepIngests
          => /\ employee_df'.columns = {StripName(c) : c \in RawColumns(uploaded_file')}
             /\ RowsComplete(employee_df')
       /\ (ev'.op = "add" /\ ev'.result = "committed")
          => /\ employee_df'.columns = employee_df.columns \cup FormCols
             /\ RowsComplete(employee_df')]_vars

C13_Witness ==
    /\ ev.op = "add"
    /\ ev.result = "committed"
    /\ last_uploaded_file_id = <<FileIdOf(FileTeam)>>
    /\ employee_df.columns = {PreferredName, WorkEmail, Region, Notes} \cup FormCols
    /\ Count(employee_df) = 3
    /\ RowsComplete(employee_df)

\* C14: a committed append adds every column of the record the Table lacks,
\* with null in every pre-existing row and the record's value in the new
\* row, and stores null in the new row for every Table column the record
\* lacks
C14_AppendReconcilesColumns ==
    [][(ev'.op = "add" /\ ev'.result = "committed")
          => LET last == Count(employee_df')
                 record == new_employee(ev'.form)
             IN /\ last = Count(employee_df) + 1
                /\ \A c \in DOMAIN record \ employee_df.columns :
                      /\ c \in employee_df'.columns
                      /\ \A i \in DOMAIN employee_df.rows :
                            ~NotNa(employee_df'.rows[i][c])
                      /\ employee_df'.rows[last][c] = record[c]
                /\ \A c \in employee_df.columns \ DOMAIN record :
                      ~NotNa(employee_df'.rows[last][c])]_vars

C14_Witness ==
    /\ ev.op = "add"
    /\ ev.result = "committed"
    /\ ev.form[Personal] = "p1"
    /\ last_uploaded_file_id = <<FileIdOf(FileTeam)>>
    /\ Personal \notin process_uploaded_file(FileTeam).df.columns
    /\ Count(employee_df) = 3
    /\ employee_df.rows[1][Personal] = PyNone
    /\ employee_df.rows[2][Personal] = PyNone
    /\ employee_df.rows[3][Personal] = "p1"
    /\ employee_df.rows[3][Notes] = PyNone

\* C15: in every reachable state all rows of the Table have the same column
\* set
C15_UniformColumns ==
    \A i, j \in DOMAIN employee_df.rows :
       DOMAIN employee_df.rows[i] = DOMAIN employee_df.rows[j]

C15_Witness ==
    /\ ev.op = "save"
    /\ ev.result = "committed"
    /\ last_uploaded_file_id = <<FileIdOf(FileTeam)>>
    /\ Count(employee_df) = 2
    /\ Personal \notin process_uploaded_file(FileTeam).df.columns
    /\ Personal \in DOMAIN employee_df.rows[1]
    /\ Personal \in DOMAIN employee_df.rows[2]
    /\ Notes \in DOMAIN employee_df.rows[ev.target]

C18_SuccessOnlyIfUnique ==
    [][(ev'.op = "save" /\ ev'.result = "committed")
          => LET n == Cardinality(MatchIdx(employee_df', ev'.form[WorkEmail]))
             IN /\ "updated successfully" \in ev'.msgs => n = 1
                /\ n /= 1 => "CRITICAL ERROR: not found after update" \in ev'.msgs]_vars

\* C19: every upload of a file the reader parses leaves the Table equal to
\* the parsed rows and columns of that file
C19_UploadReplacesTable ==
    [][(ev'.op = "upload" /\ ~ReadFails(uploaded_file'))
          => employee_df' = process_uploaded_file(uploaded_file').df]_vars

\* C20: Clear All Data leaves the Table empty, and while the Table is empty
\* and no file has been ingested since, every run other than an upload or
\* an append leaves it empty
C20_ClearedStaysEmpty ==
    [][/\ ev'.op = "clear" => IsEmpty(employee_df')
       /\ (IsEmpty(employee_df) /\ last_uploaded_file_id = NoneId
              /\ ev'.op \notin {"upload", "add"})
          => IsEmpty(employee_df')]_vars

\* C21: an upload the reader fails on shows the load error and leaves the
\* Table and last_uploaded_file_id as they were; the run goes on to draw
\* the dashboard of the unchanged Table
C21_FailedUploadKeepsTable ==
    [][(ev'.op = "upload" /\ ReadFails(uploaded_file'))
          => /\ employee_df' = employee_df
             /\ last_uploaded_file_id' = last_uploaded_file_id
             /\ "Error loading file" \in ev'.msgs
             /\ "File loaded" \notin ev'.msgs
             /\ rendered'.edit = rendered.edit]_vars

----------------------------------------------------------------------------
(* Filter engine *)

\* predicates a caller can supply
RegionPreds == SUBSET {"East", "West"}
RolePreds == {{}, {"SE"}}
BusinessUnitPreds == {{}, {"Sales"}}
EmployeeTypePreds == {{}, {"Full Time"}, {"Full Time", "Temp"}}

\* the rows of df, in order, that satisfy every non-empty predicate over a
\* column df has
RowsSatisfying(df, preds) ==
    LET ok(i) == \A c \in DOMAIN preds :
                    (preds[c] /= {} /\ c \in df.columns) => df.rows[i][c] \in preds[c]
        F[n \in 0..Len(df.rows)] ==
            IF n = 0 THEN <<>>
            ELSE IF ok(n) THEN Append(F[n - 1], df.rows[n]) ELSE F[n - 1]
    IN F[Len(df.rows)]

\* C22: for the Table of every reachable state and every supplied set of
\* predicates, apply_filters_fast returns the columns of its input and
\* exactly the rows, in input order, that satisfy every non-empty predicate
\* over a column the input has
C22_FilterSelectsExactly ==
    \A r \in RegionPreds, ro \in RolePreds, bu \in BusinessUnitPreds,
       et \in EmployeeTypePreds :
       LET out == apply_filters_fast(employee_df, r, ro, bu, et)
       IN /\ out.columns = employee_df.columns
          /\ out.rows = RowsSatisfying(employee_df,
                           [c \in {Region, Role, BusinessUnit, EmployeeType} |->
                               CASE c = Region -> r
                                 [] c = Role -> ro
                                 [] c = BusinessUnit -> bu
                                 [] OTHER -> et])

C22_Witness ==
    /\ last_uploaded_file_id = <<FileIdOf(FileTeam)>>
    /\ Count(employee_df) = 2
    /\ employee_df.rows[2][Region] = Null
    /\ Count(apply_filters_fast(employee_df, {"East"}, {"SE"}, {}, {"Full Time"})) = 1
    /\ apply_filters_fast(employee_df, {"East"}, {"SE"}, {}, {"Full Time"}).rows[1][PreferredName] = "Ann"
    /\ Count(apply_filters_fast(employee_df, {"West"}, {}, {}, {})) = 0

----------------------------------------------------------------------------
(* Render passes *)

\* the gate of the run of this step took its storing branch (ingest)
StepGateStores == ev'.msgs \cap {"File loaded", "TypeError"} /= {}

\* the run drew the dashboard without ingesting, clearing, appending or
\* updating
StepRendersOnly ==
    /\ ev'.op \in {"rerender", "remove", "filter"}
    /\ ~StepGateStores

\* C23: a run that performs no ingest, clear, append or update leaves the
\* Table unchanged (same rows, same column set, same values), and the
\* render-only columns of the class lists ('Boot Camp Class', 'VILT Class',
\* 'Transfer/Promo Type') are never columns of the Table or of the frame
\* behind the full-table download buttons.
C23_RenderLeavesTable ==
    [][/\ StepRendersOnly => employee_df' = employee_df
       /\ employee_df'.columns \cap DerivedCols = {}
       /\ \A k \in DOMAIN rendered'.export :
             rendered'.export[k].columns \cap DerivedCols = {}]_vars

\* a render pass over a Table with a VILT column drew the VILT class list
\* with its 'VILT Class' column and offered the export
C23_Witness ==
    /\ ev.op = "rerender"
    /\ "File loaded" \notin ev.msgs
    /\ VILT \in employee_df.columns
    /\ rendered.showing = <<1, 1>>
    /\ LET view == ClassSections(employee_df).views[2]
       IN /\ "VILT Class" \in view.columns
          /\ Count(view) = 1
          /\ view.rows[1]["VILT Class"] = "Jan 2024"
    /\ rendered.export = <<employee_df>>

\* C24: every successful append or update ends its run with st.rerun(),
\* and the run that follows, which starts before the page is left to the
\* user, leaves the Table as the mutation made it and draws the dashboard
\* from it: both Total Employees metrics the run draws are the row count of
\* that Table and the frame behind the CSV/Excel download buttons is that
\* Table.
C24_DashboardShowsMutation ==
    [][/\ (ev'.op \in {"add", "save"} /\ ev'.result = "committed")
          => rerun_requested'
       /\ rerun_requested
          => /\ ~rerun_requested'
             /\ employee_df' = employee_df
             /\ rendered'.total = Count(employee_df)
             /\ rendered'.data_total \in {Unset, Count(employee_df)}
             /\ rendered'.export = <<employee_df>>]_vars

----------------------------------------------------------------------------
(* Gate idleness *)

\* the uploader holds the file the Table was last ingested from and the
\* dashboard with its filters and forms is drawn
HeldFileIngested ==
    /\ uploaded_file /= NoFile
    /\ last_uploaded_file_id = <<FileIdOf(uploaded_file)>>
    /\ ~IsNone(employee_df)
    /\ ~Tab1Stops(employee_df)

\* C25: once a file has been ingested, a later run started by a filter
\* change, a Save Changes or an Add Employee submission while the uploader
\* still holds that file does not ingest it again: the Table after the pass
\* is the Table before it, with the append or update of the pass applied
\* when it was committed.
C25_HeldFileNotReingested ==
    [][(HeldFileIngested /\ ev'.op \in {"rerender", "filter", "save", "add"})
          => /\ "File loaded" \notin ev'.msgs
             /\ last_uploaded_file_id' = last_uploaded_file_id
             /\ employee_df' =
                  IF ev'.result /= "committed" THEN employee_df
                  ELSE IF ev'.op = "add"
                  THEN ConcatRow(employee_df, new_employee(ev'.form))
                  ELSE updated_df(employee_df,
                                  Selection(employee_df, ev'.pick), ev'.form)]_vars

\* the Region filter was emptied after an append, with team.csv still in
\* the uploader: the appended third row is still there
C25_Witness ==
    /\ ev.op = "filter"
    /\ cleared = {Region}
    /\ rendered.showing = <<3, 3>>
    /\ uploaded_file = FileTeam
    /\ last_uploaded_file_id = <<FileIdOf(FileTeam)>>
    /\ nops = 1
    /\ Count(employee_df) = Count(process_uploaded_file(FileTeam).df) + 1
    /\ "File loaded" \notin ev.msgs

----------------------------------------------------------------------------
(* Identity column *)

\* C26: after every successful update the updated row's Preferred Name and
\* Work Email are both non-null, so the row is still listed by the edit
\* selector.
C26_UpdatedRowKeepsIdentity ==
    [][(ev'.op = "save" /\ ev'.result = "committed"
        /\ "updated successfully" \in ev'.msgs)
          => /\ NotNa(employee_df'.rows[ev'.target][PreferredName])
             /\ NotNa(employee_df'.rows[ev'.target][WorkEmail])
             /\ ev'.target \in employees_with_email(employee_df')]_vars

\* the non-null Work Email values of the rows are pairwise distinct
EmailsDistinct(df) ==
    WorkEmail \in df.columns =>
       \A i, j \in DOMAIN df.rows :
          (i /= j /\ NotNa(df.rows[i][WorkEmail])) =>
              df.rows[i][WorkEmail] /= df.rows[j][WorkEmail]

\* C27: if the non-null Work Email values of the Table are pairwise
\* distinct, they are still pairwise distinct after a successful append or
\* update.
C27_EmailsStayDistinct ==
    [][(ev'.op \in {"add", "save"} /\ ev'.result = "committed"
        /\ EmailsDistinct(employee_df))
          => EmailsDistinct(employee_df')]_vars

----------------------------------------------------------------------------
(* Columns under update *)

\* C28: an update never removes a column: after a successful update the
\* column set of the Table is the column set before it united with the
\* fields of the edit form, and every row other than the target has null in
\* each column the update added.
C28_UpdateKeepsColumns ==
    [][(ev'.op = "save" /\ ev'.result = "committed")
          => /\ employee_df'.columns = employee_df.columns \cup FormCols
             /\ \A i \in DOMAIN employee_df'.rows :
                   i /= ev'.target =>
                      \A c \in FormCols \ employee_df.columns :
                         ~NotNa(employee_df'.rows[i][c])]_vars

\* Ann of team.csv was updated: the Table kept Notes, which no form shows,
\* gained the form's other fields, and Bob's row has null in a gained one
C28_Witness ==
    /\ ev.op = "save"
    /\ ev.result = "committed"
    /\ ev.target = 1
    /\ last_uploaded_file_id = <<FileIdOf(FileTeam)>>
    /\ employee_df.columns = {PreferredName, WorkEmail, Region, Notes} \cup FormCols
    /\ Count(employee_df) = 2
    /\ employee_df.rows[2][Notes] = "n1"
    /\ employee_df.rows[2][Personal] = PyNone
    /\ employee_df.rows[2][CapstoneLoaded] = PyNone

----------------------------------------------------------------------------
(* Sidebar filters at their defaults *)

\* C29: with the sidebar filters at their defaults and at most 20 distinct
\* values in each of Region, Role and Business Unit, the filtered view holds
\* every row of the Table: the sidebar shows 'Showing N of N records'.
C29_DefaultFiltersShowAll ==
    (/\ rendered.showing /= <<>>
     /\ ~rerun_requested
     /\ cleared = {}
     /\ \A c \in {Region, Role, BusinessUnit} :
           Len(filter_options(employee_df, c)) <= DefaultLimit)
       => /\ rendered.showing[1] = rendered.showing[2]
          /\ Count(default_filtered_df(employee_df)) = Count(employee_df)

----------------------------------------------------------------------------
(* Original count *)

\* C30: whenever original_employee_count is set, the row count of the Table
\* is original_employee_count plus the number of successful appends since
\* the last successful ingest or clear.  Step by step: a pass that ingests
\* a file or clears sets original_employee_count to the row count; every
\* other pass leaves original_employee_count as it was and, when it is
\* set, leaves the row count as it was, but for a committed append, which
\* adds one row.
C30_CountIsOriginalPlusAppends ==
    [][IF "File loaded" \in ev'.msgs \/ ev'.result = "cleared"
       THEN /\ original_employee_count' /= Unset
            /\ Count(employee_df') = original_employee_count'
       ELSE /\ original_employee_count' = original_employee_count
            /\ original_employee_count /= Unset
                  => Count(employee_df') =
                        IF ev'.op = "add" /\ ev'.result = "committed"
                        THEN Count(employee_df) + 1
                        ELSE Count(employee_df)]_vars

====